---- MODULE Spec2Model ----
(***************************************************************************)
(* A state-machine model of baltracker's polling cycle:                    *)
(*   balances.py  main / track_balances / gen_bal_update                   *)
(*   api_req.py   balance aggregation, change detection, price resolver    *)
(*   config.py    the configuration dataclasses                             *)
(*   tg_utils.py  the fields of TGMsgBot                                    *)
(* Decimal quantities are modelled by naturals (amounts, prices) and by    *)
(* exact rationals <<n, d>> where the code divides.                        *)
(***************************************************************************)
EXTENDS Integers, Sequences, FiniteSets, TLC

(***************************************************************************)
(* Program constants.                                                      *)
(***************************************************************************)
N_RETRIES == 3         \* api_req.py:432
RELOAD_CYCLES == 12    \* balances.py:450
SOL_ADDR == "so1"      \* api_req.py:242 (abbreviated)

(***************************************************************************)
(* Generic helpers.                                                        *)
(***************************************************************************)
Range(s) == {s[i] : i \in DOMAIN s}

Restrict(f, S) == [x \in S \cap DOMAIN f |-> f[x]]

\* dict update {**f, **g}: g's items override f's
Merge(f, g) == [x \in DOMAIN f \cup DOMAIN g |-> IF x \in DOMAIN g THEN g[x] ELSE f[x]]

Put(f, k, v) == [x \in DOMAIN f \cup {k} |-> IF x = k THEN v ELSE f[x]]

EmptyDict == <<>>

RECURSIVE Gcd(_, _)
Gcd(a, b) == IF b = 0 THEN a ELSE Gcd(b, a % b)

Abs(x) == IF x < 0 THEN -x ELSE x

(***************************************************************************)
(* Exact rationals <<n, d>>, d > 0, in lowest terms: the values Decimal    *)
(* arithmetic produces from the small operands of the model.               *)
(***************************************************************************)
RatNorm(n, d) ==
    LET s == IF d < 0 THEN -1 ELSE 1
        g == Gcd(Abs(n), Abs(d))
    IN  IF n = 0 THEN <<0, 1>> ELSE <<(s * n) \div g, (s * d) \div g>>

Rat(n) == <<n, 1>>
RatAdd(a, b) == RatNorm(a[1] * b[2] + b[1] * a[2], a[2] * b[2])
RatSub(a, b) == RatNorm(a[1] * b[2] - b[1] * a[2], a[2] * b[2])
RatMul(a, b) == RatNorm(a[1] * b[1], a[2] * b[2])
RatDiv(a, b) == RatNorm(a[1] * b[2], a[2] * b[1])
RatLess(a, b) == a[1] * b[2] < b[1] * a[2]

\* the decimal strings of the model, Digits[n + 1] = str(Decimal(n))
Digits == <<"0", "1", "2", "3", "4", "5", "6", "7", "8", "9">>

\* Decimal(str) on the strings the sources and the snapshot file hold
Decimal(s) ==
    IF s = "0.0" THEN 0
    ELSE (CHOOSE i \in DOMAIN Digits : Digits[i] = s) - 1

\* str(Decimal) as to_json_dict writes it
DecStr(n) == Digits[n + 1]

\* str.lower() on the wallet and token addresses of the model
Lower(s) ==
    CASE s = "W1" -> "w1"
      [] s = "TOK" -> "tok"
      [] OTHER -> s

\* truthiness of a Python str
Truthy(s) == s # ""

(***************************************************************************)
(* TokenInfo (api_req.py:28-55).  rv_cache models functools.cached_property*)
(* on real_value: <<>> until the first read, then the value first computed.*)
(***************************************************************************)
TokenInfo(address, name, symbol, chain, balances) ==
    [address |-> address, name |-> name, symbol |-> symbol, chain |-> chain,
     balances |-> balances, price |-> 0, liquidity |-> 0, market_cap |-> 0,
     link |-> "", rv_cache |-> <<>>]

RECURSIVE SumOver(_, _)
SumOver(f, S) ==
    IF S = {} THEN 0
    ELSE LET x == CHOOSE y \in S : TRUE IN f[x] + SumOver(f, S \ {x})

\* TokenInfo.balance
balance(info) == SumOver(info.balances, DOMAIN info.balances)

\* TokenInfo.value
value(info) == balance(info) * info.price

\* a real value without the slippage adjustment
real_value_unadjusted(info) == Rat(value(info))

\* a real value that is clamped at zero
real_value_clamped(info) ==
    IF info.liquidity = 0 THEN Rat(value(info))
    ELSE IF value(info) <= info.liquidity
    THEN RatNorm(value(info) * (info.liquidity - value(info)), info.liquidity)
    ELSE Rat(0)

\* TokenInfo.real_value, computed from the current fields
real_value_fresh(info) ==
    IF info.liquidity = 0 THEN Rat(value(info))
    ELSE LET available_liq == RatDiv(Rat(info.liquidity), Rat(2))
             slippage == RatDiv(RatSub(Rat(1),
                                       RatDiv(RatSub(available_liq, Rat(value(info))),
                                              available_liq)),
                                Rat(2))
         IN  RatMul(Rat(value(info)), RatSub(Rat(1), slippage))

\* TokenInfo.real_value as read through the cached_property
real_value(info) == IF info.rv_cache # <<>> THEN info.rv_cache[1] ELSE real_value_fresh(info)

\* the entry after a read of real_value: the value is now cached
Touch(info) == [info EXCEPT !.rv_cache = <<real_value(info)>>]

(***************************************************************************)
(* The environment: configurations (config.py:42-81) and what the sources  *)
(* may answer.                                                             *)
(***************************************************************************)
Config(name, evm_wallets, evm_chains, sol_wallets, sui_wallets, unsupported, interval, send_msg) ==
    [name |-> name, evm_wallets |-> evm_wallets, evm_chains |-> evm_chains,
     sol_wallets |-> sol_wallets, sui_wallets |-> sui_wallets,
     unsupported_balances |-> unsupported, time_interval |-> interval,
     send_msg |-> send_msg]

\* one run uses one configuration file; time_interval counts 5-second slots
Configs ==
    { Config("evm_wallets", <<"W1", "w2">>, <<"c1">>, <<>>, <<>>, EmptyDict, 1, FALSE),
      Config("evm_chains", <<"W1">>, <<"c1", "c2">>, <<>>, <<>>, EmptyDict, 1, FALSE),
      Config("solana", <<>>, <<>>, <<"s1">>, <<>>, EmptyDict, 1, FALSE),
      Config("sui", <<>>, <<>>, <<>>, <<"u1">>, [x \in {"M"} |-> 3], 2, FALSE),
      Config("telegram", <<>>, <<>>, <<>>, <<"u1">>, EmptyDict, 1, TRUE) }

\* EVMInfo.gecko_ticker of a configured chain (config.py:64-65)
GeckoTicker(chain) == chain

Statuses == {200, 401, 429, 500, 501, 502, 503}

\* requests.Response.raise_for_status
RaiseForStatus(status) == status >= 400

\* handle_sui_req (api_req.py:69-83)
handle_sui_req(status) ==
    IF status \in {500, 501, 502, 503} THEN "retry"
    ELSE IF status = 429 THEN "retry"
    ELSE IF RaiseForStatus(status) THEN "raise"
    ELSE "ok"

\* get_gecko_price (api_req.py:139-149): after a 500 or 503 it sleeps and then
\* reads the price out of that same response, whose body holds none
get_gecko_price(status) ==
    IF status = 429 THEN "retry"
    ELSE IF status = 500 \/ status = 503 THEN "fallthrough"
    ELSE IF RaiseForStatus(status) THEN "raise"
    ELSE "ok"

\* the handling of moralis_get_req (api_req.py:214-222): a 429 is retried
moralis_get_req(status) ==
    IF status = 429 THEN "retry"
    ELSE IF status >= 400 THEN "raise"
    ELSE "ok"

\* handle_moralis_req (api_req.py:152-162)
handle_moralis_req(status) ==
    IF status = 500 \/ status = 503 THEN "retry"
    ELSE IF RaiseForStatus(status) THEN "raise"
    ELSE "ok"

\* handle_dex_req (api_req.py:335-348)
handle_dex_req(status) ==
    IF status = 500 \/ status = 503 THEN "retry"
    ELSE IF status = 429 THEN "retry"
    ELSE IF RaiseForStatus(status) THEN "raise"
    ELSE "ok"

\* portfolio answers of the Solana source for one wallet
SolToken(amount) == [mint |-> "S", amount |-> amount, name |-> "Sol Token", symbol |-> "S"]
SolData ==
    { [tokens |-> <<>>, nativeBalance |-> "1"],
      [tokens |-> <<SolToken("0")>>, nativeBalance |-> "1"],
      [tokens |-> <<SolToken("2")>>, nativeBalance |-> "1"],
      [tokens |-> <<SolToken("2")>>, nativeBalance |-> "0"] }

\* coin lists of the Sui source for one wallet
SuiCoin(total) ==
    [coinType |-> "U", totalBalance |-> total, decimals |-> 0, coinName |-> "Sui Coin",
     coinSymbol |-> "U"]
SuiData == {<<>>, <<SuiCoin("0")>>, <<SuiCoin("1")>>, <<SuiCoin("2")>>}

\* raw native-balance strings of the EVM source
NativeStrs == {"5", "6"}

\* token lists of the EVM source for one wallet on one chain; token "A" has
\* the same contract address on every chain
EvmNative(chain, amount) ==
    [token_address |-> "0xeee", native_token |-> TRUE, balance_formatted |-> amount,
     name |-> chain, symbol |-> chain]
EvmToken(amount) ==
    [token_address |-> "A", native_token |-> FALSE, balance_formatted |-> amount,
     name |-> "Token A", symbol |-> "A"]
EvmData(chain) ==
    LET amt == IF chain = "c1" THEN "1" ELSE "2" IN
    { <<EvmNative(chain, "1")>>,
      <<EvmNative(chain, "1"), EvmToken(amt)>>,
      <<EvmNative(chain, "0"), EvmToken(amt)>> }

(***************************************************************************)
(* State.                                                                  *)
(***************************************************************************)
VARIABLES
    cfg,                \* Config.from_json(args.config_path)
    pc,                 \* position of the main thread
    tg_bot,             \* main's tg_bot: "unbound" before line 417, then "None" or "TGMsgBot"
    delivered,          \* the messages the Telegram API has accepted
    tgmsgbot,           \* the TGMsgBot object and its sender thread, NoBot when none was built
    cycles,             \* calls of track_balances started
    n_updates,          \* main's n_updates
    exc,                \* the exception that ended the polling loop, "" if none
    raised,             \* tasks of get_balance_update whose future holds an exception
    idx,                \* requests answered in the request loop the thread is in
    last_resp,          \* the last HTTP response handled: source, status, what the handler did
    native_exists,      \* .native_balances.json exists
    native_file,        \* its content: chain -> wallet -> balance string
    token_file,         \* token_balances.json: address -> entry (EmptyDict when missing)
    portfolio_file,     \* portfolio.csv: the lines written
    io,                 \* file accesses of the running cycle (counts)
    clock,              \* int(time.time()), one tick per report
    previous_balance,   \* track_balances: load_previous_balance(token_bal_path)
    sui_responses,      \* get_sui_balances: responses
    sui_balances,       \* result of sui_req
    evm_prices,         \* result of gecko_req
    sol_responses,      \* get_token_balances: sol_responses (in insertion order)
    responses,          \* get_native_change_evm: responses
    previous_responses, \* get_native_change_evm: previous_responses
    update_required,    \* get_native_change_evm's result
    balances,           \* get_token_balances: balances
    evm_responses,      \* get_token_balances: evm_responses (in insertion order)
    all_balances,       \* track_balances: all_balances
    token_contracts,    \* track_balances: token_contracts
    portfolio_prev_usd, \* track_balances: portfolio_prev_usd
    updates,            \* track_balances: updates, in 5-second slots
    sent,               \* track_balances: sent
    iter,               \* gen_bal_update calls completed in the running cycle
    found_info_all,     \* get_token_price_info: found_info_all
    not_found,          \* get_token_price_info: not_found
    n_retries,          \* get_token_price_info: n_retries
    rounds,             \* calls of get_token_pair_info made by the running get_token_price_info
    queried,            \* the address list of the last of them
    history,            \* per change detection made in the data directory: the (wallet,
                        \* chain) pairs it flagged and the ledger file at that moment
    call,               \* a direct call of one function: its name and arguments
    result              \* what the call returned or raised

files == <<native_exists, native_file, token_file, portfolio_file>>
fetch == <<sui_responses, sui_balances, evm_prices, sol_responses, responses,
           previous_responses, update_required, balances, evm_responses>>
report == <<all_balances, token_contracts, portfolio_prev_usd, updates, sent, iter>>
price == <<found_info_all, not_found, n_retries, rounds, queried>>
bot == <<tg_bot, delivered, tgmsgbot>>
calc == <<call, result>>
program == <<cfg, bot, pc, cycles, n_updates, exc, raised, idx, last_resp, files, io, clock,
             previous_balance, fetch, report, price, history>>
vars == <<program, calc>>

\* no function is called directly while main runs
NoCall == [fn |-> ""]
NoResult == [done |-> FALSE]

\* no TGMsgBot has been constructed
NoBot == [thread |-> "none"]

NoResp == [source |-> "", status |-> 0, outcome |-> ""]
Resp(source, status, outcome) == [source |-> source, status |-> status, outcome |-> outcome]
NoIo == [ledger_reads |-> 0, ledger_writes |-> 0, native_reads |-> 0, native_writes |-> 0,
         lines |-> 0, token_requests |-> EmptyDict]

\* the locals of one track_balances call before it runs
FetchInit ==
    /\ sui_responses = EmptyDict /\ sui_balances = EmptyDict /\ evm_prices = EmptyDict
    /\ sol_responses = <<>> /\ responses = EmptyDict /\ previous_responses = EmptyDict
    /\ update_required = EmptyDict /\ balances = EmptyDict /\ evm_responses = <<>>
ReportInit ==
    /\ all_balances = EmptyDict /\ token_contracts = {} /\ portfolio_prev_usd = Rat(0)
    /\ updates = 0 /\ sent = FALSE /\ iter = 0
PriceInit ==
    /\ found_info_all = EmptyDict /\ not_found = {} /\ n_retries = 0 /\ rounds = 0 /\ queried = {}

\* the locals of track_balances go out of scope when it returns
LocalsDropped ==
    /\ sui_responses' = EmptyDict /\ sui_balances' = EmptyDict /\ evm_prices' = EmptyDict
    /\ sol_responses' = <<>> /\ responses' = EmptyDict /\ previous_responses' = EmptyDict
    /\ update_required' = EmptyDict /\ balances' = EmptyDict /\ evm_responses' = <<>>
    /\ all_balances' = EmptyDict /\ token_contracts' = {} /\ portfolio_prev_usd' = Rat(0)
    /\ updates' = 0 /\ sent' = FALSE /\ iter' = 0
    /\ previous_balance' = EmptyDict

\* an exception leaves track_balances: the frames of the call are unwound
Unwind ==
    /\ LocalsDropped
    /\ found_info_all' = EmptyDict /\ not_found' = {} /\ n_retries' = 0 /\ rounds' = 0 /\ queried' = {}
    /\ raised' = {} /\ idx' = 0

\* the line of balances.py:305
Line(time_s, portfolio_usd) == [time_s |-> time_s, usd |-> portfolio_usd]

(***************************************************************************)
(* The ledger snapshot file (api_req.py:57-63, balances.py:148-168).       *)
(***************************************************************************)
to_json_dict(info) ==
    [address |-> info.address, name |-> info.name, symbol |-> info.symbol,
     chain |-> info.chain,
     balances |-> [w \in DOMAIN info.balances |-> DecStr(info.balances[w])],
     price |-> DecStr(info.price), liquidity |-> DecStr(info.liquidity),
     market_cap |-> DecStr(info.market_cap), link |-> info.link]

\* save_balances (balances.py:148-151)
save_balances(bals) == [a \in DOMAIN bals |-> to_json_dict(bals[a])]

\* a load that leaves market_cap at the default of the dataclass
load_without_market_cap(file) ==
    [a \in DOMAIN file |->
        [address |-> file[a].address, name |-> file[a].name, symbol |-> file[a].symbol,
         chain |-> file[a].chain,
         balances |-> [w \in DOMAIN file[a].balances |-> Decimal(file[a].balances[w])],
         price |-> Decimal(file[a].price), liquidity |-> Decimal(file[a].liquidity),
         market_cap |-> 0, link |-> file[a].link,
         rv_cache |-> <<>>]]

\* load_previous_balance (balances.py:154-168); a missing file is an empty one
load_previous_balance(file) ==
    [a \in DOMAIN file |->
        [address |-> file[a].address, name |-> file[a].name, symbol |-> file[a].symbol,
         chain |-> file[a].chain,
         balances |-> [w \in DOMAIN file[a].balances |-> Decimal(file[a].balances[w])],
         price |-> Decimal(file[a].price), liquidity |-> Decimal(file[a].liquidity),
         market_cap |-> Decimal(file[a].market_cap), link |-> file[a].link,
         rv_cache |-> <<>>]]

(***************************************************************************)
(* Aggregation (api_req.py:86-127, 165-332).                               *)
(***************************************************************************)
\* "if addr not in balances: balances[addr] = info / else: balances[addr].balances[wallet] = balance"
SetBalance(bals, addr, wallet, bal, info) ==
    IF addr \notin DOMAIN bals THEN Put(bals, addr, info)
    ELSE [bals EXCEPT ![addr].balances = Put(@, wallet, bal)]

\* get_sui_balances, lines 109-125: the coins of one wallet
RECURSIVE SuiCoins(_, _, _)
SuiCoins(bals, wallet, coins) ==
    IF coins = <<>> THEN bals
    ELSE LET coin == Head(coins)
             bal == Decimal(coin.totalBalance) \div (10 ^ coin.decimals)
             info == TokenInfo(coin.coinType, coin.coinName, coin.coinSymbol, "sui",
                               [w \in {wallet} |-> bal])
         IN  SuiCoins(IF bal = 0 THEN bals
                      ELSE SetBalance(bals, coin.coinType, wallet, bal, info),
                      wallet, Tail(coins))

\* get_sui_balances, lines 107-127
RECURSIVE SuiAggregate(_, _, _)
SuiAggregate(bals, wallets, resp) ==
    IF wallets = <<>> THEN bals
    ELSE SuiAggregate(SuiCoins(bals, Head(wallets), resp[Head(wallets)]), Tail(wallets), resp)

\* get_token_balances, lines 282-298: the tokens of one Solana wallet
RECURSIVE SolTokens(_, _, _)
SolTokens(bals, wallet, tokens) ==
    IF tokens = <<>> THEN bals
    ELSE LET token == Head(tokens)
             bal == Decimal(token.amount)
             info == TokenInfo(token.mint, token.name, token.symbol, "solana",
                               [w \in {wallet} |-> bal])
         IN  SolTokens(IF bal = 0 THEN bals
                       ELSE SetBalance(bals, token.mint, wallet, bal, info),
                       wallet, Tail(tokens))

\* get_token_balances, lines 300-311: the native balance of one Solana wallet
SolNative(bals, wallet, data) ==
    LET sol_balance == Decimal(data.nativeBalance)
        native_info == TokenInfo(SOL_ADDR, "Solana", "SOL", "solana",
                                 [w \in {wallet} |-> sol_balance])
    IN  SetBalance(bals, SOL_ADDR, wallet, sol_balance, native_info)

\* get_token_balances, lines 281-311
RECURSIVE MergeSol(_, _)
MergeSol(bals, resps) ==
    IF resps = <<>> THEN bals
    ELSE LET r == Head(resps)
         IN  MergeSol(SolNative(SolTokens(bals, r.wallet, r.data.tokens), r.wallet, r.data),
                      Tail(resps))

\* get_token_balances, lines 314-330: the tokens of one wallet on one chain
RECURSIVE EvmTokens(_, _, _, _)
EvmTokens(bals, wallet, chain, tokens) ==
    IF tokens = <<>> THEN bals
    ELSE LET token == Head(tokens)
             addr == IF ~token.native_token THEN token.token_address ELSE chain
             bal == Decimal(token.balance_formatted)
             info == TokenInfo(addr, token.name, token.symbol, chain,
                               [w \in {wallet} |-> bal])
         IN  EvmTokens(IF bal = 0 THEN bals
                       ELSE SetBalance(bals, addr, wallet, bal, info),
                       wallet, chain, Tail(tokens))

\* get_token_balances, lines 313-330
RECURSIVE MergeEvm(_, _)
MergeEvm(bals, resps) ==
    IF resps = <<>> THEN bals
    ELSE LET r == Head(resps)
         IN  MergeEvm(EvmTokens(bals, r.wallet, r.chain, r.data), Tail(resps))

\* [w.lower() for w in evm_wallets]
RECURSIVE LowerAll(_)
LowerAll(ws) == IF ws = <<>> THEN <<>> ELSE <<Lower(Head(ws))>> \o LowerAll(Tail(ws))

\* change detection that flags absent wallets only
NeedsUpdateIfAbsent(prev, resp, chain, wallet) ==
    ~(chain \in DOMAIN prev /\ wallet \in DOMAIN prev[chain])

\* get_native_change_evm, lines 204-209: is the wallet appended to update_required[chain]
NeedsUpdate(prev, resp, chain, wallet) ==
    LET known == chain \in DOMAIN prev /\ wallet \in DOMAIN prev[chain]
    IN  IF ~known \/ ~Truthy(prev[chain][wallet]) THEN TRUE
        ELSE IF resp[chain][wallet] # prev[chain][wallet] THEN TRUE
        ELSE FALSE

\* get_native_change_evm, lines 199-211
get_native_change_evm(evm_wallets, evm_chains, resp, prev) ==
    [chain \in Range(evm_chains) |->
        LET Needs(w) == NeedsUpdate(prev, resp, chain, w)
        IN  SelectSeq(LowerAll(evm_wallets), Needs)]

\* get_token_balances, lines 261-265: flagged wallets leave the entries of their chain
DropFlagged(old, upd) ==
    [a \in DOMAIN old |->
        [old[a] EXCEPT !.balances =
            Restrict(@, {w \in DOMAIN @ :
                           ~(old[a].chain \in DOMAIN upd /\ w \in Range(upd[old[a].chain]))})]]

\* get_token_balances, lines 268-270: what is carried over from the previous snapshot
CarryForward(old, upd) ==
    LET kept == {a \in DOMAIN old : old[a].balances # EmptyDict /\ old[a].chain \in DOMAIN upd}
    IN  [addr \in {old[a].address : a \in kept} |->
            old[CHOOSE a \in kept : old[a].address = addr]]

\* the (wallet, chain) requests of lines 273-279, in the order they are made
RECURSIVE FlaggedPairs(_, _)
FlaggedPairs(upd, chains) ==
    IF chains = <<>> THEN <<>>
    ELSE [i \in 1..Len(upd[Head(chains)]) |->
            [wallet |-> upd[Head(chains)][i], chain |-> Head(chains)]]
         \o FlaggedPairs(upd, Tail(chains))

(***************************************************************************)
(* get_balance_update (api_req.py:442-495).  Its three tasks share no      *)
(* state and the executor waits for all of them whatever any of them       *)
(* raises, so they are run one after the other: sui_req, gecko_req,        *)
(* balances_req.                                                           *)
(***************************************************************************)
AfterNative(c) == "change"
AfterSol(c) == IF Len(c.evm_chains) > 0 THEN "native" ELSE AfterNative(c)
AfterGecko(c) == IF Len(c.sol_wallets) > 0 THEN "sol" ELSE AfterSol(c)
AfterSui(c) == IF Len(c.evm_chains) > 0 THEN "gecko" ELSE AfterGecko(c)
AfterLoad(c) == IF Len(c.sui_wallets) > 0 THEN "sui" ELSE AfterSui(c)

(***************************************************************************)
(* The data directory when the process starts.  The files are the ones an  *)
(* earlier run left there, in the formats save_balances and                *)
(* get_native_change_evm write.                                            *)
(***************************************************************************)
PriorEntry(address, chain, bals, price_usd, liquidity_usd, mcap) ==
    [TokenInfo(address, address, address, chain, bals)
        EXCEPT !.price = price_usd, !.liquidity = liquidity_usd, !.market_cap = mcap,
               !.link = "url"]

\* a ledger of the configured wallets: each holds 1 of every native asset and of
\* token "A" (on the first chain), of the Solana token and of the Sui coin
PriorBalances(c) ==
    LET evm == [w \in Range(LowerAll(c.evm_wallets)) |-> 1]
        sol == [w \in Range(c.sol_wallets) |-> 1]
        sui == [w \in Range(c.sui_wallets) |-> 1]
        natives == [ch \in Range(c.evm_chains) |-> PriorEntry(ch, ch, evm, 3, 0, 0)]
        tokenA == IF Len(c.evm_chains) = 0 THEN EmptyDict
                  ELSE [a \in {"A"} |-> PriorEntry("A", c.evm_chains[1], evm, 2, 4, 8)]
        sols == IF Len(c.sol_wallets) = 0 THEN EmptyDict
                ELSE [a \in {SOL_ADDR, "S"} |->
                        IF a = SOL_ADDR THEN PriorEntry(a, "solana", sol, 2, 4, 8)
                        ELSE PriorEntry(a, "solana", sol, 1, 0, 0)]
        suis == IF Len(c.sui_wallets) = 0 THEN EmptyDict
                ELSE [a \in {"U"} |-> PriorEntry("U", "sui", sui, 1, 0, 0)]
    IN  Merge(Merge(natives, tokenA), Merge(sols, suis))

\* token_balances.json and portfolio.csv: both missing, or both left by a run
PriorReports(c) ==
    { <<EmptyDict, <<>> >>,
      <<save_balances(PriorBalances(c)), <<Line(0, Rat(5))>> >> }

\* .native_balances.json: missing, or the record of every chain, for all the
\* wallets or for the first of them only
PriorNative(c) ==
    LET ws == LowerAll(c.evm_wallets)
        Record(S) == [ch \in Range(c.evm_chains) |-> [w \in S |-> "5"]]
    IN  {<<FALSE, EmptyDict>>, <<TRUE, Record(Range(ws))>>} \cup
        (IF Len(ws) > 1 /\ Len(c.evm_chains) > 0 THEN {<<TRUE, Record({ws[1]})>>} ELSE {})

Init ==
    /\ cfg \in Configs
    /\ tg_bot = "unbound" /\ delivered = {} /\ tgmsgbot = NoBot
    /\ pc = "main" /\ cycles = 0 /\ n_updates = 0 /\ exc = "" /\ raised = {}
    /\ idx = 0 /\ last_resp = NoResp
    /\ \E prior \in PriorNative(cfg) : native_exists = prior[1] /\ native_file = prior[2]
    /\ \E prior \in PriorReports(cfg) : token_file = prior[1] /\ portfolio_file = prior[2]
    /\ io = NoIo /\ clock = 1
    /\ previous_balance = EmptyDict
    /\ FetchInit /\ ReportInit /\ PriceInit
    /\ history = <<>>
    /\ call = NoCall /\ result = NoResult

\* TGMsgBot's dataclass fields (tg_utils.py:16-23) and TgConfig's (config.py:27-30)
TGMsgBotFields == {"bot_token", "chat_id", "session", "params", "msg_id", "is_sending_forever"}
TgConfigFields == {"bot_token", "chat_id", "send_msg"}

\* main, lines 418-422: the keyword arguments of the constructor call and the
\* attributes of cfg.telegram they are read from
BotKwargs == {"bot_token", "backup_token", "chat_id"}
BotKwargSources == {"bot_token", "backup_bot_token", "chat_id"}

\* main, lines 418-422, raises (AttributeError on the read of a missing
\* attribute, else TypeError on an unexpected keyword)
BotConstructionRaises ==
    ~(BotKwargSources \subseteq TgConfigFields) \/ ~(BotKwargs \subseteq TGMsgBotFields)

\* main, lines 408-443: up to the entry of the try block; an exception here
\* is outside the try and ends the process with a traceback
Main ==
    /\ pc = "main"
    /\ IF cfg.send_msg
       THEN IF BotConstructionRaises
            THEN /\ pc' = "crashed"
                 /\ exc' = IF ~(BotKwargSources \subseteq TgConfigFields)
                           THEN "AttributeError" ELSE "TypeError"
                 /\ UNCHANGED tg_bot
            ELSE /\ tg_bot' = "TGMsgBot" /\ pc' = "start" /\ exc' = exc
       ELSE /\ tg_bot' = "None" /\ pc' = "start" /\ exc' = exc
    /\ UNCHANGED <<calc, history, cfg, delivered, tgmsgbot, cycles, n_updates, raised, idx,
                   last_resp, files, io,
                   clock, previous_balance, fetch, report, price>>

\* track_balances, line 319, and the submission of the three tasks
LoadPreviousBalance ==
    /\ pc = "start"
    /\ cycles' = cycles + 1
    /\ previous_balance' = load_previous_balance(token_file)
    /\ io' = [NoIo EXCEPT !.ledger_reads = 1]
    /\ pc' = AfterLoad(cfg)
    /\ UNCHANGED <<calc, history, cfg, bot, n_updates, exc, raised, idx, last_resp, files, clock, fetch,
                   report, price>>

\* sui_req: one request of get_sui_balances, lines 96-101, and after the last
\* one lines 107-127
SuiRequest ==
    /\ pc = "sui"
    /\ \E status \in Statuses, data \in SuiData :
        LET out == handle_sui_req(status)
            wallet == cfg.sui_wallets[idx + 1]
            resp == Put(sui_responses, wallet, data)
            last == idx + 1 = Len(cfg.sui_wallets)
        IN  /\ (status # 200 => data = <<>>)
            /\ last_resp' = Resp("sui", status, out)
            /\ raised' = IF out = "raise" THEN raised \cup {"sui"} ELSE raised
            /\ sui_responses' = IF out = "ok" THEN resp ELSE sui_responses
            /\ sui_balances' = IF out = "ok" /\ last
                               THEN SuiAggregate(EmptyDict, cfg.sui_wallets, resp)
                               ELSE sui_balances
            /\ idx' = IF out = "retry" THEN idx ELSE IF out = "ok" /\ ~last THEN idx + 1 ELSE 0
            /\ pc' = IF out = "raise" \/ (out = "ok" /\ last) THEN AfterSui(cfg) ELSE pc
    /\ UNCHANGED <<calc, history, cfg, bot, cycles, n_updates, exc, files, io, clock, previous_balance,
                   evm_prices, sol_responses, responses, previous_responses,
                   update_required, balances, evm_responses, report, price>>

\* gecko_req: one call of get_gecko_price (api_req.py:130-149)
GeckoRequest ==
    /\ pc = "gecko"
    /\ \E status \in Statuses :
        LET out == get_gecko_price(status)
            ticker == GeckoTicker(cfg.evm_chains[idx + 1])
            last == idx + 1 = Len(cfg.evm_chains)
            failed == out = "raise" \/ out = "fallthrough"
        IN  /\ last_resp' = Resp("gecko", status, out)
            /\ raised' = IF out = "raise" THEN raised \cup {"gecko"}
                         ELSE IF out = "fallthrough" THEN raised \cup {"gecko_parse"}
                         ELSE raised
            /\ evm_prices' = IF out = "ok" THEN Put(evm_prices, ticker, 3) ELSE evm_prices
            /\ idx' = IF out = "retry" THEN idx ELSE IF out = "ok" /\ ~last THEN idx + 1 ELSE 0
            /\ pc' = IF failed \/ (out = "ok" /\ last) THEN AfterGecko(cfg) ELSE pc
    /\ UNCHANGED <<calc, history, cfg, bot, cycles, n_updates, exc, files, io, clock, previous_balance,
                   sui_responses, sui_balances, sol_responses, responses,
                   previous_responses, update_required, balances, evm_responses,
                   report, price>>

\* balances_req: one request of get_token_balances, lines 248-252
SolRequest ==
    /\ pc = "sol"
    /\ \E status \in Statuses, data \in SolData :
        LET out == handle_moralis_req(status)
            wallet == cfg.sol_wallets[idx + 1]
            last == idx + 1 = Len(cfg.sol_wallets)
        IN  /\ (status # 200 => data = [tokens |-> <<>>, nativeBalance |-> "0"])
            /\ last_resp' = Resp("moralis", status, out)
            /\ raised' = IF out = "raise" THEN raised \cup {"bal"} ELSE raised
            /\ sol_responses' = IF out = "ok"
                                THEN Append(sol_responses, [wallet |-> wallet, data |-> data])
                                ELSE sol_responses
            /\ idx' = IF out = "retry" THEN idx ELSE IF out = "ok" /\ ~last THEN idx + 1 ELSE 0
            /\ pc' = IF out = "raise" THEN "join"
                     ELSE IF out = "ok" /\ last THEN AfterSol(cfg) ELSE pc
    /\ UNCHANGED <<calc, history, cfg, bot, cycles, n_updates, exc, files, io, clock, previous_balance,
                   sui_responses, sui_balances, evm_prices, responses,
                   previous_responses, update_required, balances, evm_responses,
                   report, price>>

\* balances_req: one request of get_native_change_evm, lines 183-188
NativeRequest ==
    /\ pc = "native"
    /\ \E status \in Statuses,
          native_balances \in [Range(LowerAll(cfg.evm_wallets)) -> NativeStrs] :
        LET out == handle_moralis_req(status)
            chain == cfg.evm_chains[idx + 1]
            last == idx + 1 = Len(cfg.evm_chains)
        IN  /\ (status # 200 => \A w \in DOMAIN native_balances : native_balances[w] = "5")
            /\ last_resp' = Resp("moralis", status, out)
            /\ raised' = IF out = "raise" THEN raised \cup {"bal"} ELSE raised
            /\ responses' = IF out = "ok" THEN Put(responses, chain, native_balances)
                            ELSE responses
            /\ idx' = IF out = "retry" THEN idx ELSE IF out = "ok" /\ ~last THEN idx + 1 ELSE 0
            /\ pc' = IF out = "raise" THEN "join"
                     ELSE IF out = "ok" /\ last THEN AfterNative(cfg) ELSE pc
    /\ UNCHANGED <<calc, history, cfg, bot, cycles, n_updates, exc, files, io, clock, previous_balance,
                   sui_responses, sui_balances, evm_prices, sol_responses,
                   previous_responses, update_required, balances, evm_responses,
                   report, price>>

\* a callee that deletes the balances of the flagged wallets in the ledger it
\* is handed
old_balances_shared(old, upd) == DropFlagged(old, upd)

\* get_token_balances, line 233: old_balances is rebound to a deep copy, and the
\* deletions of lines 261-265 are made there; the ledger of the caller after them
old_balances_of_caller(old, upd) == old

\* a write that keeps a file that already has content
json_dump_once(content, obj) == IF content = EmptyDict THEN obj ELSE content

\* open(native_bal_path, "w") and json.dump(responses, f), lines 196-197: the
\* content of the file after the write, whatever it was before
json_dump(content, obj) == obj

\* balances_req: get_native_change_evm, lines 190-211, then get_token_balances,
\* lines 261-270 on old_balances = deepcopy(old_balances) of line 233
NativeChange ==
    /\ pc = "change"
    /\ LET prev == IF native_exists THEN native_file ELSE EmptyDict
           upd == get_native_change_evm(cfg.evm_wallets, cfg.evm_chains, responses, prev)
       IN  /\ previous_responses' = prev
           /\ native_file' = json_dump(native_file, responses)
           /\ native_exists' = TRUE
           /\ update_required' = upd
           /\ balances' = CarryForward(DropFlagged(previous_balance, upd), upd)
           /\ previous_balance' = old_balances_of_caller(previous_balance, upd)
           /\ history' = Append(history, [flagged |-> FlaggedPairs(upd, cfg.evm_chains),
                                          ledger |-> token_file])
           /\ io' = [io EXCEPT !.native_reads = @ + (IF native_exists THEN 1 ELSE 0),
                               !.native_writes = @ + 1]
           /\ pc' = IF FlaggedPairs(upd, cfg.evm_chains) # <<>> THEN "evm" ELSE "merge"
    /\ UNCHANGED <<calc, cfg, bot, cycles, n_updates, exc, raised, idx, last_resp, token_file,
                   portfolio_file, clock, sui_responses, sui_balances,
                   evm_prices, sol_responses, responses, evm_responses, report, price>>

\* balances_req: one request of get_token_balances, lines 273-279
EvmTokenRequest ==
    /\ pc = "evm"
    /\ LET pairs == FlaggedPairs(update_required, cfg.evm_chains)
           pair == pairs[idx + 1]
           last == idx + 1 = Len(pairs)
       IN  \E status \in Statuses :
           \E data \in (IF status = 200 THEN EvmData(pair.chain) ELSE {<<>>}) :
            LET out == handle_moralis_req(status)
            IN  /\ last_resp' = Resp("moralis", status, out)
                /\ raised' = IF out = "raise" THEN raised \cup {"bal"} ELSE raised
                /\ evm_responses' =
                      IF out = "ok"
                      THEN Append(evm_responses,
                                  [wallet |-> pair.wallet, chain |-> pair.chain, data |-> data])
                      ELSE evm_responses
                /\ io' = IF out = "retry" THEN io
                         ELSE [io EXCEPT !.token_requests =
                                  Put(@, <<pair.wallet, pair.chain>>,
                                      IF <<pair.wallet, pair.chain>> \in DOMAIN @
                                      THEN @[<<pair.wallet, pair.chain>>] + 1 ELSE 1)]
                /\ idx' = IF out = "retry" THEN idx
                          ELSE IF out = "ok" /\ ~last THEN idx + 1 ELSE 0
                /\ pc' = IF out = "raise" THEN "join"
                         ELSE IF out = "ok" /\ last THEN "merge" ELSE pc
    /\ UNCHANGED <<calc, history, cfg, bot, cycles, n_updates, exc, files, clock, previous_balance,
                   sui_responses, sui_balances, evm_prices, sol_responses, responses,
                   previous_responses, update_required, balances, report, price>>

\* balances_req: get_token_balances, lines 281-332
MergeBalances ==
    /\ pc = "merge"
    /\ balances' = MergeEvm(MergeSol(balances, sol_responses), evm_responses)
    /\ pc' = "join"
    /\ UNCHANGED <<calc, history, cfg, bot, cycles, n_updates, exc, raised, idx, last_resp,
                   files, io, clock,
                   previous_balance, sui_responses, sui_balances, evm_prices,
                   sol_responses, responses, previous_responses, update_required,
                   evm_responses, report, price>>

\* get_balance_update, lines 483-485: the chains whose lookup raises KeyError
GeckoKeyError(bals, prices, chains) ==
    \E chain \in Range(chains) :
        /\ GeckoTicker(chain) \in DOMAIN prices
        /\ (chain \notin DOMAIN bals \/ chain \notin DOMAIN prices)

\* get_balance_update, lines 483-485
SetGeckoPrices(bals, prices, chains) ==
    [a \in DOMAIN bals |->
        IF a \in Range(chains) /\ GeckoTicker(a) \in DOMAIN prices
        THEN [bals[a] EXCEPT !.price = prices[a]]
        ELSE bals[a]]

\* track_balances, lines 333-337
PortfolioPrevUsd(lines) == IF lines = <<>> THEN Rat(0) ELSE lines[Len(lines)].usd

\* get_balance_update, lines 478-495, and track_balances, lines 333-341
JoinFutures ==
    /\ pc = "join"
    /\ IF raised # {}
       THEN /\ exc' = IF raised = {"gecko_parse"} THEN "ParseError" ELSE "HTTPError"
            /\ pc' = "finally" /\ Unwind
       ELSE IF GeckoKeyError(balances, evm_prices, cfg.evm_chains)
       THEN exc' = "KeyError" /\ pc' = "finally" /\ Unwind
       ELSE LET token_balances == SetGeckoPrices(balances, evm_prices, cfg.evm_chains)
            IN  /\ all_balances' = Merge(sui_balances, token_balances)
                /\ token_contracts' =
                      (DOMAIN sui_balances \cup DOMAIN cfg.unsupported_balances
                         \cup DOMAIN token_balances) \ Range(cfg.evm_chains)
                /\ portfolio_prev_usd' = PortfolioPrevUsd(portfolio_file)
                /\ updates' = cfg.time_interval
                /\ sent' = FALSE
                /\ iter' = 0
                /\ exc' = exc /\ pc' = "loop"
                /\ UNCHANGED <<raised, idx, previous_balance, fetch, price>>
    /\ UNCHANGED <<calc, history, cfg, bot, cycles, n_updates, last_resp, files, io, clock>>

(***************************************************************************)
(* The price resolver (api_req.py:351-439).                                *)
(***************************************************************************)
Pair(address, priceUsd, liquidity_usd, volume_h24, marketCap) ==
    [baseToken |-> [address |-> address, name |-> address, symbol |-> address],
     chainId |-> "dexchain", priceUsd |-> priceUsd, liquidity |-> liquidity_usd,
     volume |-> volume_h24, marketCap |-> marketCap, url |-> "url"]

\* what the pair source may list for one address
PairLists(address) ==
    << <<>>,
       <<Pair(address, "1", 0, 1, 0)>>,
       <<Pair(address, "2", 4, 0, 8)>> >>

\* the answers to a query of the addresses Q: every address gets the same kind
\* of list, or one address alone is listed
DexAnswers(Q) ==
    { sel \in [Q -> DOMAIN PairLists("")] :
        \/ \A a, b \in Q : sel[a] = sel[b]
        \/ \E a \in Q : sel[a] = 3 /\ \A b \in Q \ {a} : sel[b] = 1 }

\* the pairs of one answer: for each queried address one of its lists
RECURSIVE PairInfo(_, _)
PairInfo(Q, sel) ==
    IF Q = {} THEN <<>>
    ELSE LET a == CHOOSE x \in Q : TRUE
         IN  PairLists(a)[sel[a]] \o PairInfo(Q \ {a}, sel)

is_ca(x, contract) == Lower(x.baseToken.address) = Lower(contract)
\* x.get("volume", {}).get("h24", Decimal(0)); a pair without the key has no field
get_volume_usd(x) == IF "volume" \in DOMAIN x THEN x.volume ELSE 0
\* x.get("liquidity", {}).get("usd", Decimal(0))
get_liquidity_usd(x) == IF "liquidity" \in DOMAIN x THEN x.liquidity ELSE 0

\* max(list, key): the first element whose key is maximal
MaxLiquidity(list) ==
    list[CHOOSE i \in DOMAIN list :
            /\ \A j \in DOMAIN list : get_liquidity_usd(list[j]) <= get_liquidity_usd(list[i])
            /\ \A j \in 1..(i - 1) : get_liquidity_usd(list[j]) < get_liquidity_usd(list[i])]
MaxVolume(list) ==
    list[CHOOSE i \in DOMAIN list :
            /\ \A j \in DOMAIN list : get_volume_usd(list[j]) <= get_volume_usd(list[i])
            /\ \A j \in 1..(i - 1) : get_volume_usd(list[j]) < get_volume_usd(list[i])]

\* a selection by liquidity alone
find_token_by_liquidity(pair_info, address) ==
    LET IsCa(x) == is_ca(x, address)
        filter_list == SelectSeq(pair_info, IsCa)
    IN  IF filter_list = <<>> THEN <<>> ELSE <<MaxLiquidity(filter_list)>>

\* find_token (api_req.py:380-392): <<>> for {}, else <<best_pair>>
find_token(pair_info, address) ==
    LET IsCa(x) == is_ca(x, address)
        filter_list == SelectSeq(pair_info, IsCa)
    IN  IF filter_list = <<>> THEN <<>>
        ELSE IF get_liquidity_usd(MaxLiquidity(filter_list)) = 0
        THEN <<MaxVolume(filter_list)>>
        ELSE <<MaxLiquidity(filter_list)>>

\* find_tokens (api_req.py:395-426): found_info
FoundInfo(contracts, pair_info) ==
    LET Found(a) == find_token(pair_info, a) # <<>> /\ Truthy(find_token(pair_info, a)[1].priceUsd)
    IN  [a \in {x \in contracts : Found(x)} |->
            LET pair == find_token(pair_info, a)[1]
            IN  [address |-> a, name |-> pair.baseToken.name,
                 symbol |-> pair.baseToken.symbol, chain |-> pair.chainId,
                 price |-> Decimal(pair.priceUsd), liquidity |-> get_liquidity_usd(pair),
                 market_cap |-> pair.marketCap, link |-> pair.url]]

\* find_tokens (api_req.py:395-426): not_found
NotFound(contracts, pair_info) == contracts \ DOMAIN FoundInfo(contracts, pair_info)

\* a retry round that queries the whole address list again
RetryAllContracts(contracts, missing) == contracts

\* the address list a retry round of get_token_price_info queries (line 434)
RetryContracts(contracts, missing) == missing

\* get_token_price_info, line 437
NextRetries(n) == n - 1

\* get_token_price_info, lines 430-432: the first query (no request is made for
\* an empty address list)
PriceFirstQuery ==
    /\ pc = "loop" /\ updates > 0
    /\ \E status \in (IF token_contracts = {} THEN {200} ELSE Statuses),
          sel \in DexAnswers(token_contracts) :
        LET out == handle_dex_req(status)
            pair_info == PairInfo(token_contracts, sel)
        IN  /\ (status # 200 => \A a \in token_contracts : sel[a] = 1)
            /\ last_resp' = IF token_contracts = {} THEN last_resp
                            ELSE Resp("dex", status, out)
            /\ IF out = "ok"
               THEN /\ found_info_all' = FoundInfo(token_contracts, pair_info)
                    /\ not_found' = NotFound(token_contracts, pair_info)
                    /\ n_retries' = N_RETRIES
                    /\ rounds' = 1 /\ queried' = token_contracts
                    /\ pc' = "retry" /\ exc' = exc
                    /\ UNCHANGED <<raised, idx, previous_balance, fetch, report>>
               ELSE IF out = "raise"
               THEN pc' = "finally" /\ exc' = "HTTPError" /\ Unwind
               ELSE UNCHANGED <<pc, exc, price, raised, idx, previous_balance, fetch, report>>
    /\ UNCHANGED <<calc, history, cfg, bot, cycles, n_updates, files, io, clock>>

\* get_token_price_info, lines 433-437: one retry round
PriceRetryQuery ==
    /\ pc = "retry" /\ not_found # {} /\ n_retries # 0
    /\ LET contracts == RetryContracts(token_contracts, not_found)
       IN  \E status \in Statuses, sel \in DexAnswers(contracts) :
            LET out == handle_dex_req(status)
                pair_info == PairInfo(contracts, sel)
            IN  /\ (status # 200 => \A a \in contracts : sel[a] = 1)
                /\ last_resp' = Resp("dex", status, out)
                /\ IF out = "ok"
                   THEN /\ found_info_all' = Merge(found_info_all,
                                                   FoundInfo(contracts, pair_info))
                        /\ not_found' = NotFound(contracts, pair_info)
                        /\ n_retries' = NextRetries(n_retries)
                        /\ rounds' = rounds + 1 /\ queried' = contracts
                        /\ UNCHANGED <<pc, exc, raised, idx, previous_balance, fetch,
                                       report>>
                   ELSE IF out = "raise"
                   THEN pc' = "finally" /\ exc' = "HTTPError" /\ Unwind
                   ELSE UNCHANGED <<pc, exc, price, raised, idx, previous_balance, fetch,
                                    report>>
    /\ UNCHANGED <<calc, history, cfg, bot, cycles, n_updates, files, io, clock>>

(***************************************************************************)
(* gen_bal_update (balances.py:171-307).                                   *)
(***************************************************************************)
\* get_and_set_price_info (api_req.py:498-511), after get_token_price_info
get_and_set_price_info(found, unsupported, bals) ==
    [a \in DOMAIN bals \cup (DOMAIN found \cap DOMAIN unsupported) |->
        IF a \notin DOMAIN found THEN bals[a]
        ELSE IF a \in DOMAIN unsupported
        THEN [TokenInfo(found[a].address, found[a].name, found[a].symbol, found[a].chain,
                        [w \in {"unknown"} |-> unsupported[a]])
                EXCEPT !.price = found[a].price, !.liquidity = found[a].liquidity,
                       !.market_cap = found[a].market_cap, !.link = found[a].link]
        ELSE [bals[a] EXCEPT !.price = found[a].price, !.liquidity = found[a].liquidity,
                             !.market_cap = found[a].market_cap, !.link = found[a].link]]

\* getattr of a field the dataclass does not declare raises AttributeError
HasAttr(info, field) == field \in DOMAIN info

\* balances.py:197-200: an entry that reaches the read of prev_info.dex
ReadsDex(bals, prev, a) == bals[a].price # 0 /\ a \in DOMAIN prev

\* balances.py:188-204 raises AttributeError
FallbackRaises(bals, prev) ==
    \E a \in DOMAIN bals :
        ReadsDex(bals, prev, a) /\ (~HasAttr(prev[a], "dex") \/ ~HasAttr(bals[a], "dex"))

\* balances.py:188-204 for one entry
FallbackEntry(info, prev, a) ==
    IF info.price = 0
    THEN LET p == IF a \in DOMAIN prev THEN prev[a] ELSE info
         IN  [info EXCEPT !.price = p.price, !.liquidity = p.liquidity,
                          !.market_cap = p.market_cap]
    ELSE IF a \notin DOMAIN prev THEN info
    ELSE IF prev[a].dex # info.dex /\ prev[a].liquidity > info.liquidity
    THEN [info EXCEPT !.price = prev[a].price, !.liquidity = prev[a].liquidity,
                      !.market_cap = prev[a].market_cap, !.dex = prev[a].dex]
    ELSE info

\* balances.py:188-204
Fallback(bals, prev) == [a \in DOMAIN bals |-> FallbackEntry(bals[a], prev, a)]

RECURSIVE RatSum(_, _)
RatSum(f, S) ==
    IF S = {} THEN Rat(0)
    ELSE LET x == CHOOSE y \in S : TRUE IN RatAdd(f[x], RatSum(f, S \ {x}))

\* balances.py:206
PortfolioUsd(bals) == RatSum([a \in DOMAIN bals |-> real_value(bals[a])], DOMAIN bals)

\* BalanceUpdate.__post_init__ (balances.py:79-95) divides by zero
DeltaRaisesFor(old, new) ==
    \/ balance(old) = 0
    \/ /\ ~(old.price = 0 /\ new.price = 0)
       /\ old.price # 0
       /\ real_value(old) = Rat(0)

\* the decimal exception of n / 0
DivisionError(n) == IF n = 0 THEN "InvalidOperation" ELSE "DivisionByZero"

\* a delta of two entries that has two price cases only: old.price is zero or not
BothPresentTwoCases(old, new) ==
    LET balance_change == balance(new) - balance(old)
        value_change == RatSub(real_value(new), real_value(old))
    IN  IF balance(old) = 0 THEN [raises |-> DivisionError(100 * balance_change)]
        ELSE IF old.price = 0
        THEN [balance_change |-> balance_change,
              balance_change_pct |-> RatDiv(Rat(100 * balance_change), Rat(balance(old))),
              value_change |-> Rat(0), value_change_pct |-> Rat(100),
              price_change_pct |-> Rat(0)]
        ELSE IF real_value(old) = Rat(0) THEN [raises |-> DivisionError(value_change[1])]
        ELSE [balance_change |-> balance_change,
              balance_change_pct |-> RatDiv(Rat(100 * balance_change), Rat(balance(old))),
              value_change |-> value_change,
              value_change_pct |-> RatDiv(RatMul(Rat(100), value_change), real_value(old)),
              price_change_pct |-> RatDiv(Rat(100 * (new.price - old.price)),
                                          Rat(old.price))]

\* BalanceUpdate.__post_init__, lines 79-95: old and new are entries; the fields
\* set, or the exception raised
BothPresent(old, new) ==
    LET balance_change == balance(new) - balance(old)
    IN  IF balance(old) = 0 THEN [raises |-> DivisionError(100 * balance_change)]
        ELSE LET balance_change_pct == RatDiv(Rat(100 * balance_change), Rat(balance(old)))
             IN  IF old.price = 0 /\ new.price = 0
                 THEN [balance_change |-> balance_change,
                       balance_change_pct |-> balance_change_pct,
                       value_change |-> Rat(0), value_change_pct |-> Rat(100),
                       price_change_pct |-> Rat(0)]
                 ELSE IF old.price = 0
                 THEN [balance_change |-> balance_change,
                       balance_change_pct |-> balance_change_pct,
                       value_change |-> real_value(new), value_change_pct |-> Rat(100),
                       price_change_pct |-> Rat(100 * (new.price - old.price))]
                 ELSE LET value_change == RatSub(real_value(new), real_value(old))
                      IN  IF real_value(old) = Rat(0)
                          THEN [raises |-> DivisionError(value_change[1])]
                          ELSE [balance_change |-> balance_change,
                                balance_change_pct |-> balance_change_pct,
                                value_change |-> value_change,
                                value_change_pct |->
                                    RatDiv(RatMul(Rat(100), value_change), real_value(old)),
                                price_change_pct |->
                                    RatDiv(Rat(100 * (new.price - old.price)),
                                           Rat(old.price))]

\* a delta that reports a holding that disappeared like one that appeared
BalanceUpdateUnsigned(old, new) ==
    IF old = <<>> /\ new = <<>> THEN EmptyDict
    ELSE IF old # <<>> /\ new # <<>> THEN BothPresent(old[1], new[1])
    ELSE LET info == IF old = <<>> THEN new[1] ELSE old[1]
         IN  [value_change |-> real_value(info), value_change_pct |-> Rat(100),
              balance_change |-> balance(info), balance_change_pct |-> Rat(100),
              price_change_pct |-> Rat(0)]

\* BalanceUpdate.__post_init__ (balances.py:67-95): old and new are <<>> for
\* False and <<entry>> for an entry; the fields set, or the exception raised
BalanceUpdate(old, new) ==
    IF old = <<>> /\ new # <<>>
    THEN [value_change |-> real_value(new[1]), value_change_pct |-> Rat(100),
          balance_change |-> balance(new[1]), balance_change_pct |-> Rat(100),
          price_change_pct |-> Rat(0)]
    ELSE IF new = <<>> /\ old # <<>>
    THEN [value_change |-> RatMul(Rat(-1), real_value(old[1])),
          value_change_pct |-> Rat(-100),
          balance_change |-> (-1) * balance(old[1]),
          price_change_pct |-> Rat(0)]
    ELSE IF new # <<>> /\ old # <<>> THEN BothPresent(old[1], new[1])
    ELSE EmptyDict

\* balances.py:254-261
DeltaRaises(bals, prev) ==
    \E a \in DOMAIN prev \cap DOMAIN bals : DeltaRaisesFor(prev[a], bals[a])

\* balances.py:304-305: open(portfolio_path, "a") and one write
AppendLine(file, time_s, portfolio_usd) == Append(file, Line(time_s, portfolio_usd))

\* General's dataclass fields (config.py:33-38)
GeneralFields == {"verbose", "min_value_usd", "time_interval", "data_path"}

\* balances.py:230 (a ledger with an entry) or 249 (any ledger): the read of
\* cfg.general.hide_balances raises AttributeError
HideBalancesRaises == "hide_balances" \notin GeneralFields

\* the rest of one pass of the loop of track_balances (balances.py:342-379):
\* gen_bal_update from get_and_set_price_info's loop on, the bookkeeping of the
\* pass and, when the interval has expired, the return to main (lines 448-452)
GenBalUpdate ==
    /\ pc = "retry" /\ ~(not_found # {} /\ n_retries # 0)
    /\ LET priced == get_and_set_price_info(found_info_all, cfg.unsupported_balances,
                                            all_balances)
       IN  IF FallbackRaises(priced, previous_balance)
           THEN /\ exc' = "AttributeError: dex" /\ pc' = "finally" /\ Unwind
                /\ UNCHANGED <<files, io, clock, n_updates>>
           ELSE IF HideBalancesRaises
           THEN /\ exc' = "AttributeError: hide_balances" /\ pc' = "finally" /\ Unwind
                /\ UNCHANGED <<files, io, clock, n_updates>>
           ELSE LET balance_update == Fallback(priced, previous_balance)
                    portfolio_usd == PortfolioUsd(balance_update)
                IN  IF DeltaRaises(balance_update, previous_balance)
                    THEN /\ exc' = "DivisionByZero" /\ pc' = "finally" /\ Unwind
                         /\ UNCHANGED <<files, io, clock, n_updates>>
                    ELSE \E d \in 1..updates :
                         /\ token_file' = save_balances(balance_update)
                         /\ portfolio_file' = AppendLine(portfolio_file, clock, portfolio_usd)
                         /\ io' = [io EXCEPT !.ledger_writes = @ + 1, !.lines = @ + 1]
                         /\ clock' = clock + 1
                         /\ found_info_all' = EmptyDict /\ not_found' = {}
                         /\ n_retries' = 0 /\ rounds' = 0 /\ queried' = {}
                         /\ exc' = exc
                         /\ IF updates - d > 0
                            THEN /\ all_balances' = [a \in DOMAIN balance_update |->
                                                       Touch(balance_update[a])]
                                 /\ iter' = iter + 1
                                 /\ updates' = updates - d
                                 /\ pc' = "loop"
                                 /\ UNCHANGED <<native_exists, native_file, token_contracts,
                                                portfolio_prev_usd, sent, raised, idx,
                                                previous_balance, fetch, n_updates>>
                            ELSE /\ pc' = "start"
                                 /\ LocalsDropped /\ raised' = {} /\ idx' = 0
                                 /\ IF n_updates + 1 = RELOAD_CYCLES
                                    THEN /\ n_updates' = 0
                                         /\ native_exists' = FALSE
                                         /\ native_file' = EmptyDict
                                    ELSE /\ n_updates' = n_updates + 1
                                         /\ UNCHANGED <<native_exists, native_file>>
    /\ UNCHANGED <<calc, history, cfg, bot, cycles, last_resp>>

\* term_cb (balances.py:28-29) on SIGTERM, SIGINT or SIGHUP while the main
\* thread is inside the try block of main
Signal ==
    /\ pc \notin {"main", "crashed", "finally", "exited"}
    /\ exc' = "SigTerm" /\ pc' = "finally"
    /\ Unwind
    /\ UNCHANGED <<calc, history, cfg, bot, cycles, n_updates, last_resp, files, io, clock>>

\* main, lines 458-475; tg_bot is None whenever the try block was entered
Finally ==
    /\ pc = "finally" /\ tg_bot = "None"
    /\ pc' = "exited"
    /\ UNCHANGED <<calc, history, cfg, bot, cycles, n_updates, exc, raised, idx, last_resp,
                   files, io, clock,
                   previous_balance, fetch, report, price>>

Next ==
    \/ Main
    \/ LoadPreviousBalance
    \/ SuiRequest
    \/ GeckoRequest
    \/ SolRequest
    \/ NativeRequest
    \/ NativeChange
    \/ EvmTokenRequest
    \/ MergeBalances
    \/ JoinFutures
    \/ PriceFirstQuery
    \/ PriceRetryQuery
    \/ GenBalUpdate
    \/ Signal
    \/ Finally

Spec == Init /\ [][Next]_vars

(***************************************************************************)
(* Runs of the program one after the other in one data directory: the      *)
(* process is started again once it has ended (main's first message is     *)
(* "Bot has been restarted. If the restarts persit, check logs").          *)
(***************************************************************************)
MaxRuns == 2       \* change detections made in the data directory

\* a new process: the files are the ones the last run left, the configuration
\* is the same, the memory of the process is new
Restart ==
    /\ pc \in {"exited", "crashed"} /\ Len(history) < MaxRuns
    /\ pc' = "main" /\ tg_bot' = "unbound"
    /\ cycles' = 0 /\ n_updates' = 0 /\ exc' = "" /\ last_resp' = NoResp /\ io' = NoIo
    /\ Unwind
    /\ UNCHANGED <<calc, history, cfg, delivered, tgmsgbot, files, clock>>

RestartNext == Next \/ Restart

RestartSpec == Init /\ [][RestartNext]_vars

(***************************************************************************)
(* Direct calls of the functions that read no state of the process: the    *)
(* arguments are drawn from bounded sets and one step applies the function.*)
(***************************************************************************)
MaxPairs == 2      \* pairs in one answer of the pair source
MaxUsd == 2        \* largest liquidity and volume of a pair
MaxAmount == 3     \* largest balance, price and liquidity of an entry
MaxPoolUsd == 20   \* largest liquidity of an entry whose real value is read

\* the process before main has run
Idle ==
    /\ cfg = Config("none", <<>>, <<>>, <<>>, <<>>, EmptyDict, 1, FALSE)
    /\ tg_bot = "unbound" /\ delivered = {}
    /\ pc = "idle" /\ cycles = 0 /\ n_updates = 0 /\ exc = "" /\ raised = {}
    /\ idx = 0 /\ last_resp = NoResp
    /\ native_exists = FALSE /\ native_file = EmptyDict
    /\ token_file = EmptyDict /\ portfolio_file = <<>>
    /\ io = NoIo /\ clock = 1
    /\ previous_balance = EmptyDict
    /\ FetchInit /\ ReportInit /\ PriceInit
    /\ history = <<>>

Returned(v) == [done |-> TRUE, value |-> v]

\* the return value of a call that sets fields, or the exception it raises
Outcome(v) == IF "raises" \in DOMAIN v THEN [done |-> TRUE, raises |-> v.raises]
              ELSE Returned(v)

\* pairs of the pair source, with and without the liquidity and volume keys
CallPairs ==
    { Restrict(Pair(b, "1", l, v, 0), DOMAIN Pair(b, "1", l, v, 0) \ drop) :
        b \in {"TOK", "other"}, l \in 0..MaxUsd, v \in 0..MaxUsd,
        drop \in SUBSET {"liquidity", "volume"} }

FindTokenCalls ==
    { [fn |-> "find_token", pair_info |-> ps, address |-> a] :
        ps \in UNION {[1..k -> CallPairs] : k \in 0..MaxPairs}, a \in {"tok", "TOK"} }

FindTokenCall ==
    /\ call.fn = "find_token" /\ ~result.done
    /\ result' = Returned(find_token(call.pair_info, call.address))
    /\ UNCHANGED <<program, call>>

\* entries of one wallet, as the aggregation and the resolver fill them
CallEntries ==
    { [TokenInfo("T", "Token", "T", "c1", [w \in {"w1"} |-> b])
         EXCEPT !.price = pr, !.liquidity = l] :
        b \in 0..MaxAmount, pr \in 0..MaxAmount, l \in 0..MaxAmount }

\* previous_balance.get(t_contract, False): <<>> for False
Optional(S) == {<<>>} \cup {<<x>> : x \in S}

BalanceUpdateCalls ==
    { [fn |-> "BalanceUpdate", old |-> o, new |-> n] :
        o \in Optional(CallEntries), n \in Optional(CallEntries) }

BalanceUpdateCall ==
    /\ call.fn = "BalanceUpdate" /\ ~result.done
    /\ result' = Outcome(BalanceUpdate(call.old, call.new))
    /\ UNCHANGED <<program, call>>

\* entries of one or two wallets
ValuedEntries ==
    { [TokenInfo("T", "Token", "T", "c1", bals) EXCEPT !.price = pr, !.liquidity = l] :
        bals \in [{"w1"} -> 0..MaxAmount] \cup [{"w1", "w2"} -> 1..MaxAmount],
        pr \in 0..MaxAmount, l \in 0..MaxPoolUsd }

RealValueCalls == { [fn |-> "real_value", info |-> i] : i \in ValuedEntries }

\* the first read of info.real_value
RealValueCall ==
    /\ call.fn = "real_value" /\ ~result.done
    /\ result' = Returned(real_value(call.info))
    /\ UNCHANGED <<program, call>>

\* ledgers of up to two entries: T varies in its balances and its price, U in
\* its other fields
Ledgers ==
    LET ts == { [TokenInfo("T", "Token", "T", "c1", bals) EXCEPT !.price = pr] :
                  bals \in [{"w1"} -> 0..MaxAmount] \cup [{"w1", "w2"} -> 1..2],
                  pr \in 0..MaxAmount }
        us == { [TokenInfo("U", n, "U", c, [w \in {"w1"} |-> 1])
                   EXCEPT !.liquidity = l, !.market_cap = m, !.link = k] :
                  n \in {"", "Usd"}, c \in {"c1", "c2"}, l \in {0, MaxAmount},
                  m \in {0, MaxAmount}, k \in {"", "url"} }
    IN  {EmptyDict} \cup { [a \in {"T"} |-> t] : t \in ts }
          \cup { [a \in {"U"} |-> u] : u \in us }
          \cup { [a \in {"T", "U"} |-> IF a = "T" THEN t ELSE u] : t \in ts, u \in us }

SaveBalancesCalls == { [fn |-> "save_balances", bals |-> b] : b \in Ledgers }

\* save_balances(balances, path)
SaveBalancesCall ==
    /\ call.fn = "save_balances" /\ pc = "idle"
    /\ token_file' = save_balances(call.bals)
    /\ pc' = "saved"
    /\ UNCHANGED <<calc, history, cfg, bot, cycles, n_updates, exc, raised, idx, last_resp,
                   native_exists, native_file, portfolio_file, io, clock,
                   previous_balance, fetch, report, price>>

\* load_previous_balance(path) on the file just written
LoadPreviousBalanceCall ==
    /\ call.fn = "save_balances" /\ pc = "saved" /\ ~result.done
    /\ result' = Returned(load_previous_balance(token_file))
    /\ UNCHANGED <<program, call>>

\* what the resolver finds for token T in one pass of the reporting loop
Priced(price_usd, liquidity_usd) ==
    [a \in {"T"} |->
        [address |-> "T", name |-> "Token", symbol |-> "T", chain |-> "dexchain",
         price |-> price_usd, liquidity |-> liquidity_usd, market_cap |-> 0, link |-> "url"]]

\* a ledger of one entry as the aggregation leaves it, and what the resolver
\* finds in the first and in the second pass
RepriceCalls ==
    { [fn |-> "get_and_set_price_info",
       all_balances |-> [a \in {"T"} |-> TokenInfo("T", "Token", "T", "c1",
                                                   [w \in {"w1"} |-> b])],
       found |-> <<Priced(p1, l1), Priced(p2, l2)>>] :
        b \in 1..MaxAmount, p1 \in 1..MaxAmount, p2 \in 1..MaxAmount,
        l1 \in {0, MaxAmount}, l2 \in {0, MaxAmount} }

\* one pass of the loop of track_balances over the ledger, up to the portfolio
\* total: get_and_set_price_info overwrites the price fields of the entries
\* of all_balances (api_req.py:506-509) and gen_bal_update reads real_value
\* (balances.py:206), which stays with the entry
RepriceCall ==
    /\ call.fn = "get_and_set_price_info" /\ ~result.done
    /\ LET pass == IF "pass" \in DOMAIN result THEN result.pass + 1 ELSE 1
           ledger == IF "pass" \in DOMAIN result THEN result.all_balances
                     ELSE call.all_balances
           balance_update == get_and_set_price_info(call.found[pass], EmptyDict, ledger)
       IN  result' = [done |-> pass = Len(call.found), pass |-> pass,
                      all_balances |-> [a \in DOMAIN balance_update |->
                                          Touch(balance_update[a])],
                      portfolio_usd |-> PortfolioUsd(balance_update)]
    /\ UNCHANGED <<program, call>>

Calls ==
    FindTokenCalls \cup BalanceUpdateCalls \cup RealValueCalls \cup SaveBalancesCalls
        \cup RepriceCalls

CallInit == Idle /\ tgmsgbot = NoBot /\ call \in Calls /\ result = NoResult

CallNext ==
    \/ FindTokenCall
    \/ BalanceUpdateCall
    \/ RealValueCall
    \/ SaveBalancesCall
    \/ LoadPreviousBalanceCall
    \/ RepriceCall

CallSpec == CallInit /\ [][CallNext]_vars

(***************************************************************************)
(* The Telegram sender (tg_utils.py:16-107) and the lines of the polling   *)
(* loop that queue its messages (balances.py:340-379), called directly on  *)
(* a bot built with the fields the dataclass declares.  The sender thread  *)
(* and the polling loop take their steps in any order.                     *)
(***************************************************************************)
MaxCycles == 2     \* calls of track_balances
MaxPasses == 2     \* passes of the loop of one call: interval_s in 5-second slots

\* the reports gen_bal_update returns
Msgs == {"report 1", "report 2"}

\* TGMsgBot(bot_token, chat_id) after __post_init__: last_msg is <<>> while the
\* object has no attribute _last_msg; sends counts the messages Telegram has
\* created in the chat, whose ids are 1, 2, ...
TGMsgBot ==
    [msg_id |-> 0, is_sending_forever |-> FALSE, message_queue |-> <<>>, last_msg |-> <<>>,
     thread |-> "none", job |-> <<>>, error |-> "", sends |-> 0]

\* an entry of _message_queue: the bound method and its keyword arguments
Job(fn, msg, save_id) == [fn |-> fn, msg |-> msg, save_id |-> save_id]

\* main, lines 418-429: the bot, send_forever() and the first message
StartedBot ==
    [TGMsgBot EXCEPT !.is_sending_forever = TRUE, !.thread = "run",
                     !.message_queue = <<Job("send_msg", "Bot has been restarted. If the restarts persit, check logs",
                                            FALSE)>>]

\* a loop that queues an edit in every pass after the first
EditsAlways(b) == TRUE

\* track_balances, line 364: getattr(tg_bot, "_last_msg", False)
HasLastMsg(b) == b.last_msg # <<>> /\ Truthy(b.last_msg[1])

\* everything but the bot, Telegram and the locals of the polling loop
elsewhere == <<calc, history, cfg, tg_bot, pc, n_updates, exc, raised, idx, last_resp, files, io,
               clock, previous_balance, fetch, all_balances, token_contracts,
               portfolio_prev_usd, iter, price>>

BotInit ==
    /\ Idle /\ tgmsgbot = StartedBot
    /\ call = NoCall /\ result = NoResult

\* main, line 447: track_balances is called; lines 340-341
TrackBalancesCall ==
    /\ tgmsgbot.thread # "none" /\ updates = 0 /\ cycles < MaxCycles
    /\ cycles' = cycles + 1
    /\ updates' = MaxPasses
    /\ sent' = FALSE
    /\ UNCHANGED <<elsewhere, delivered, tgmsgbot>>

\* track_balances, lines 342-379: the report of one pass is queued as a new
\* message, as an edit of the last one, or not at all
SchedulePass ==
    /\ tgmsgbot.thread # "none" /\ updates > 0
    /\ \E msg \in Msgs :
         IF ~sent
         THEN /\ tgmsgbot' = [tgmsgbot EXCEPT !.message_queue =
                                 Append(@, Job("send_msg", msg, TRUE))]
              /\ sent' = TRUE
         ELSE IF HasLastMsg(tgmsgbot)
         THEN /\ tgmsgbot' = [tgmsgbot EXCEPT !.message_queue =
                                 Append(@, Job("edit_last_msg", msg, FALSE))]
              /\ sent' = sent
         ELSE UNCHANGED <<tgmsgbot, sent>>
    /\ updates' = updates - 1
    /\ UNCHANGED <<elsewhere, delivered, cycles>>

\* send_forever.run, lines 41-43: the thread takes the first message of the queue
SenderPop ==
    /\ tgmsgbot.thread = "run" /\ tgmsgbot.message_queue # <<>>
    /\ tgmsgbot' = [tgmsgbot EXCEPT !.job = <<Head(tgmsgbot.message_queue)>>,
                                    !.message_queue = Tail(@),
                                    !.thread = Head(tgmsgbot.message_queue).fn]
    /\ UNCHANGED <<elsewhere, delivered, cycles, updates, sent>>

\* send_msg, lines 59-81: one request; after a 429, 500, 501, 502 or 503 it
\* calls itself, any other error status raises and ends the thread
SendMsg ==
    /\ tgmsgbot.thread = "send_msg"
    /\ \E status \in Statuses :
         IF status \in {429, 500, 501, 502, 503}
         THEN UNCHANGED <<tgmsgbot, delivered>>
         ELSE IF RaiseForStatus(status)
         THEN /\ tgmsgbot' = [tgmsgbot EXCEPT !.thread = "dead", !.error = "HTTPError"]
              /\ UNCHANGED delivered
         ELSE /\ delivered' = delivered \cup {tgmsgbot.job[1].msg}
              /\ tgmsgbot' =
                    IF tgmsgbot.job[1].save_id
                    THEN [tgmsgbot EXCEPT !.sends = @ + 1, !.msg_id = tgmsgbot.sends + 1,
                                          !.thread = "save"]
                    ELSE [tgmsgbot EXCEPT !.sends = @ + 1, !.thread = "run", !.job = <<>>]
    /\ UNCHANGED <<elsewhere, cycles, updates, sent>>

\* send_msg, lines 82-83: self._last_msg = msg, after self.msg_id was set
SaveLastMsg ==
    /\ tgmsgbot.thread = "save"
    /\ tgmsgbot' = [tgmsgbot EXCEPT !.last_msg = <<tgmsgbot.job[1].msg>>, !.thread = "run",
                                    !.job = <<>>]
    /\ UNCHANGED <<elsewhere, delivered, cycles, updates, sent>>

\* edit_last_msg, lines 85-92: up to the request
EditLastMsg ==
    /\ tgmsgbot.thread = "edit_last_msg"
    /\ tgmsgbot' =
          IF tgmsgbot.msg_id = 0
          THEN [tgmsgbot EXCEPT !.thread = "dead", !.error = "MissingMessageId"]
          ELSE IF tgmsgbot.last_msg = <<>>
          THEN [tgmsgbot EXCEPT !.thread = "dead", !.error = "AttributeError"]
          ELSE IF tgmsgbot.job[1].msg = tgmsgbot.last_msg[1]
          THEN [tgmsgbot EXCEPT !.thread = "run", !.job = <<>>]
          ELSE [tgmsgbot EXCEPT !.last_msg = <<tgmsgbot.job[1].msg>>, !.thread = "post"]
    /\ UNCHANGED <<elsewhere, delivered, cycles, updates, sent>>

\* edit_last_msg, lines 94-112: one request; after a 429, 500, 501, 502 or 503
\* it calls itself
PostEdit ==
    /\ tgmsgbot.thread = "post"
    /\ \E status \in Statuses :
         IF status \in {429, 500, 501, 502, 503}
         THEN /\ tgmsgbot' = [tgmsgbot EXCEPT !.thread = "edit_last_msg"]
              /\ UNCHANGED delivered
         ELSE IF RaiseForStatus(status)
         THEN /\ tgmsgbot' = [tgmsgbot EXCEPT !.thread = "dead", !.error = "HTTPError"]
              /\ UNCHANGED delivered
         ELSE /\ delivered' = delivered \cup {tgmsgbot.job[1].msg}
              /\ tgmsgbot' = [tgmsgbot EXCEPT !.thread = "run", !.job = <<>>]
    /\ UNCHANGED <<elsewhere, cycles, updates, sent>>

BotNext ==
    \/ TrackBalancesCall
    \/ SchedulePass
    \/ SenderPop
    \/ SendMsg
    \/ SaveLastMsg
    \/ EditLastMsg
    \/ PostEdit

BotSpec == BotInit /\ [][BotNext]_vars

(***************************************************************************)
(* Properties.                                                             *)
(***************************************************************************)
Wallets == Range(LowerAll(cfg.evm_wallets))
HasRecord(c, w) == c \in DOMAIN previous_responses /\ w \in DOMAIN previous_responses[c]
Flagged(c, w) == w \in Range(update_required[c])
Stopped(p) == p \in {"finally", "exited"}
SourceFailures == {"HTTPError", "ParseError", "KeyError"}
Requests(w, c) ==
    IF <<w, c>> \in DOMAIN io.token_requests THEN io.token_requests[<<w, c>>] ELSE 0
NoZeroEntries(ledger) ==
    \A a \in DOMAIN ledger :
        /\ \A w \in DOMAIN ledger[a].balances : ledger[a].balances[w] >= 0
        /\ \E w \in DOMAIN ledger[a].balances : ledger[a].balances[w] # 0
PricedNow == get_and_set_price_info(found_info_all, cfg.unsupported_balances, all_balances)
PricedPrevious == {a \in DOMAIN previous_balance \cap DOMAIN PricedNow : PricedNow[a].price # 0}
Fatal(r) == r.status = 401 \/ (r.source = "moralis" /\ r.status = 429)

\* C1: once change detection has run, a wallet is in the refetch list of a
\* configured chain exactly when the previous native snapshot holds no record of
\* it for that chain or the fetched balance string differs from the recorded one
C1_ChangeDetection ==
    /\ pc \in {"evm", "merge"} => DOMAIN update_required = Range(cfg.evm_chains)
    /\ \A c \in DOMAIN update_required : \A w \in Wallets :
          Flagged(c, w) <=> (~HasRecord(c, w) \/ responses[c][w] # previous_responses[c][w])

\* a wallet with an identical record is left out, one with a differing record and
\* one without a record are flagged
C1_Witness ==
    /\ pc = "evm"
    /\ \E c \in DOMAIN update_required : \E w \in Wallets : HasRecord(c, w) /\ ~Flagged(c, w)
    /\ \E c \in DOMAIN update_required : \E w \in Wallets : HasRecord(c, w) /\ Flagged(c, w)

\* C2: after aggregation, an unflagged (wallet, chain) was not requested and every
\* previous entry of the chain keeps the wallet's balance and its price, liquidity
\* and market cap; a flagged one was requested exactly once and the ledger holds
\* the non-zero holdings its answer reports
C2_Claim ==
    (pc = "join" /\ "bal" \notin raised) =>
        \A c \in DOMAIN update_required : \A w \in Wallets :
            IF ~Flagged(c, w)
            THEN /\ Requests(w, c) = 0
                 /\ \A a \in DOMAIN previous_balance :
                       (previous_balance[a].chain = c /\ w \in DOMAIN previous_balance[a].balances)
                       => /\ a \in DOMAIN balances
                          /\ w \in DOMAIN balances[a].balances
                          /\ balances[a].balances[w] = previous_balance[a].balances[w]
                          /\ balances[a].price = previous_balance[a].price
                          /\ balances[a].liquidity = previous_balance[a].liquidity
                          /\ balances[a].market_cap = previous_balance[a].market_cap
            ELSE /\ Requests(w, c) = 1
                 /\ \A i \in DOMAIN evm_responses :
                       (evm_responses[i].wallet = w /\ evm_responses[i].chain = c) =>
                          \A k \in DOMAIN evm_responses[i].data :
                             LET token == evm_responses[i].data[k]
                                 addr == IF token.native_token THEN c ELSE token.token_address
                             IN  Decimal(token.balance_formatted) # 0 =>
                                    /\ addr \in DOMAIN balances
                                    /\ w \in DOMAIN balances[addr].balances
                                    /\ balances[addr].balances[w]
                                          = Decimal(token.balance_formatted)

\* C3: every ledger the aggregation produces and every persisted snapshot holds
\* non-negative balances only and no entry whose balances are all zero
C3_Claim ==
    /\ NoZeroEntries(sui_balances)
    /\ NoZeroEntries(balances)
    /\ NoZeroEntries(all_balances)
    /\ NoZeroEntries(load_previous_balance(token_file))

\* C4: a pass of gen_bal_update over a ledger with a token of the previous
\* snapshot that the resolver priced goes on to persist the ledger and the
\* history line, the token holding the resolver's or the previous price
C4_Claim ==
    [][(/\ pc = "retry" /\ pc' # "retry"
        /\ exc' \notin SourceFailures \cup {"SigTerm"}
        /\ PricedPrevious # {})
       => /\ pc' \in {"loop", "start"}
          /\ io'.ledger_writes = io.ledger_writes + 1
          /\ io'.lines = io.lines + 1
          /\ \A a \in PricedPrevious :
                /\ a \in DOMAIN token_file'
                /\ token_file'[a].price \in {DecStr(PricedNow[a].price),
                                             DecStr(previous_balance[a].price)}]_vars

\* C5: a response 429, 500, 501, 502 or 503 of any source is answered by a
\* retry of the request
C5_Claim ==
    last_resp.status \in {429, 500, 501, 502, 503} => last_resp.outcome = "retry"

\* C6: a 401 of any source and a 429 of Moralis are not retried but raised; once
\* a task has raised, the cycle reaches no report; once main has left the loop no
\* cycle starts and no file of the reports changes; and the cycle that ended on
\* the HTTP error wrote no ledger snapshot and no history line
C6_FatalStopsLoop ==
    [][/\ Fatal(last_resp') => /\ last_resp'.outcome = "raise"
                               /\ (raised' # {} \/ Stopped(pc'))
       /\ raised # {} => /\ pc' \notin {"loop", "retry", "start"}
                         /\ cycles' = cycles
                         /\ token_file' = token_file /\ portfolio_file' = portfolio_file
       /\ Stopped(pc) => /\ Stopped(pc') /\ cycles' = cycles
                         /\ token_file' = token_file /\ portfolio_file' = portfolio_file
       /\ (Stopped(pc') /\ exc' = "HTTPError") => (io'.ledger_writes = 0 /\ io'.lines = 0)
      ]_vars

\* the process has exited on a 429 of Moralis
C6_Witness ==
    /\ pc = "exited" /\ exc = "HTTPError"
    /\ last_resp.source = "moralis" /\ last_resp.status = 429 /\ last_resp.outcome = "raise"
    /\ cycles = 1

\* C7: a cycle that no source failure and no signal cut short has appended
\* exactly one line when it ends, and no step changes or removes a line
C7_Claim ==
    [][/\ (/\ pc \notin {"main", "start", "crashed", "finally", "exited"}
           /\ pc' \in {"start", "finally"}
           /\ exc' \notin SourceFailures \cup {"SigTerm"})
          => io'.lines = 1
       /\ Len(portfolio_file') >= Len(portfolio_file)
       /\ SubSeq(portfolio_file', 1, Len(portfolio_file)) = portfolio_file]_vars

\* C8: neither snapshot file is written while the cycle is still fetching,
\* enriching or computing deltas, and a cycle that no source failure and no
\* signal cut short has read each file once and written each file once
C8_Claim ==
    /\ pc \in {"sui", "gecko", "sol", "native", "change", "evm", "merge", "join", "retry"}
          => (io.native_writes = 0 /\ io.ledger_writes = 0)
    /\ (Stopped(pc) /\ exc \notin SourceFailures \cup {"SigTerm"})
          => /\ io.ledger_reads = 1 /\ io.native_reads = 1
             /\ io.ledger_writes = 1 /\ io.native_writes = 1

\* C9: when the process of a configuration with Telegram enabled has ended,
\* the shutdown notice has been sent
C9_Claim ==
    (cfg.send_msg /\ pc \in {"crashed", "exited"}) => "Bot is being shut down!" \in delivered

\* C10: a retry round is made only while addresses are missing, it is at most
\* the third after the first query, it queries exactly the addresses the round
\* before did not find, it keeps what was found, and it uses up one of the
\* retries that are left
C10_RetryPolicy ==
    [][(pc = "retry" /\ pc' = "retry" /\ rounds' # rounds)
       => /\ rounds' = rounds + 1 /\ rounds' <= 1 + 3
          /\ not_found # {}
          /\ queried' = not_found
          /\ \A a \in DOMAIN found_info_all :
                a \in DOMAIN found_info_all' /\ found_info_all'[a] = found_info_all[a]
          /\ DOMAIN found_info_all' \cup not_found' = token_contracts
          /\ n_retries' >= 0 /\ n_retries' < n_retries]_vars

\* the third retry round has been made with one address found and one still missing
C10_Witness ==
    /\ pc = "retry" /\ rounds = 4 /\ n_retries = 0
    /\ not_found # {} /\ found_info_all # EmptyDict
    /\ queried # token_contracts

ZeroPriced == {a \in DOMAIN PricedNow : PricedNow[a].price = 0}
PreviousOr(a, info) == IF a \in DOMAIN previous_balance THEN previous_balance[a] ELSE info

\* C11: a pass of gen_bal_update over a ledger with an entry whose price is zero
\* after enrichment goes on to persist the ledger, the entry holding the price,
\* liquidity and market cap of the previous snapshot's entry of that address, or
\* its own when there is none
C11_Claim ==
    [][(/\ pc = "retry" /\ pc' # "retry"
        /\ exc' \notin SourceFailures \cup {"SigTerm"}
        /\ ZeroPriced # {})
       => /\ pc' \in {"loop", "start"}
          /\ \A a \in ZeroPriced :
                /\ a \in DOMAIN token_file'
                /\ token_file'[a].price = DecStr(PreviousOr(a, PricedNow[a]).price)
                /\ token_file'[a].liquidity = DecStr(PreviousOr(a, PricedNow[a]).liquidity)
                /\ token_file'[a].market_cap
                      = DecStr(PreviousOr(a, PricedNow[a]).market_cap)]_vars

ResolverDone == pc = "retry" /\ ~(not_found # {} /\ n_retries # 0)

\* C12: when the resolver has finished, the ledger that get_and_set_price_info
\* returns holds, for every address of the manual-balance configuration, an entry
\* whose balances are {"unknown": configured balance} and whose price, liquidity,
\* market cap and link are the resolver's
C12_Claim ==
    ResolverDone =>
        \A a \in DOMAIN cfg.unsupported_balances :
            /\ a \in DOMAIN PricedNow
            /\ PricedNow[a].balances = [w \in {"unknown"} |-> cfg.unsupported_balances[a]]
            /\ a \in DOMAIN found_info_all
            /\ PricedNow[a].price = found_info_all[a].price
            /\ PricedNow[a].liquidity = found_info_all[a].liquidity
            /\ PricedNow[a].market_cap = found_info_all[a].market_cap
            /\ PricedNow[a].link = found_info_all[a].link

Candidates == {i \in DOMAIN call.pair_info :
                 Lower(call.pair_info[i].baseToken.address) = Lower(call.address)}
LiquidityOf(i) ==
    IF "liquidity" \in DOMAIN call.pair_info[i] THEN call.pair_info[i].liquidity ELSE 0
VolumeOf(i) ==
    IF "volume" \in DOMAIN call.pair_info[i] THEN call.pair_info[i].volume ELSE 0

\* C13: find_token returns nothing when no pair has the address as base token;
\* else it returns one of those pairs, of maximal liquidity when some pair has
\* liquidity, and of maximal 24h volume when all of them have liquidity zero
C13_BestPair ==
    (call.fn = "find_token" /\ result.done) =>
        IF Candidates = {} THEN result.value = <<>>
        ELSE /\ result.value # <<>>
             /\ \E i \in Candidates :
                   /\ result.value[1] = call.pair_info[i]
                   /\ IF \E j \in Candidates : LiquidityOf(j) # 0
                      THEN \A j \in Candidates : LiquidityOf(j) <= LiquidityOf(i)
                      ELSE \A j \in Candidates : VolumeOf(j) <= VolumeOf(i)

\* two pairs without liquidity: the second, of the larger volume, is returned
C13_Witness ==
    /\ call.fn = "find_token" /\ result.done
    /\ Candidates = {1, 2}
    /\ LiquidityOf(1) = 0 /\ LiquidityOf(2) = 0
    /\ VolumeOf(1) < VolumeOf(2)
    /\ result.value = <<call.pair_info[2]>>

DeltaDone == call.fn = "BalanceUpdate" /\ result.done
Negated(r) == <<(-1) * r[1], r[2]>>

\* C14: the delta of an entry that appeared is its real value, 100 percent, its
\* balance and a price change of 0; the delta of an entry that disappeared is
\* minus its real value, -100 percent, minus its balance and a price change of 0
C14_AppearDisappear ==
    DeltaDone =>
        /\ (call.old = <<>> /\ call.new # <<>>) =>
              /\ "value" \in DOMAIN result
              /\ result.value.value_change = real_value_fresh(call.new[1])
              /\ result.value.value_change_pct = Rat(100)
              /\ result.value.balance_change = call.new[1].balances["w1"]
              /\ result.value.price_change_pct = Rat(0)
        /\ (call.old # <<>> /\ call.new = <<>>) =>
              /\ "value" \in DOMAIN result
              /\ result.value.value_change = Negated(real_value_fresh(call.old[1]))
              /\ result.value.value_change_pct = Rat(-100)
              /\ result.value.balance_change = 0 - call.old[1].balances["w1"]
              /\ result.value.price_change_pct = Rat(0)

\* an entry of balance 3 at price 2 without liquidity has disappeared
C14_Witness ==
    /\ DeltaDone /\ call.old # <<>> /\ call.new = <<>>
    /\ call.old[1].balances["w1"] = 3 /\ call.old[1].price = 2
    /\ call.old[1].liquidity = 0
    /\ result.value.value_change = <<-6, 1>>
    /\ result.value.balance_change = -3

OldEntry == call.old[1]
NewEntry == call.new[1]
OldBalance == OldEntry.balances["w1"]
NewBalance == NewEntry.balances["w1"]
Undefined ==
    OldBalance = 0 \/ (OldEntry.price # 0 /\ real_value_fresh(OldEntry) = Rat(0))

RealValueDone == call.fn = "real_value" /\ result.done
Balance == SumOver(call.info.balances, DOMAIN call.info.balances)
Value == Balance * call.info.price
Available == RatDiv(Rat(call.info.liquidity), Rat(2))
Slippage == RatDiv(RatSub(Rat(1), RatDiv(RatSub(Available, Rat(Value)), Available)), Rat(2))

\* C16: the real value of an entry without liquidity is balance * price; with
\* liquidity it is value * (1 - slippage), where available = liquidity / 2 and
\* slippage = (1 - (available - value) / available) / 2
C16_RealValue ==
    RealValueDone =>
        IF call.info.liquidity = 0 THEN result.value = Rat(Balance * call.info.price)
        ELSE result.value = RatMul(Rat(Value), RatSub(Rat(1), Slippage))

\* a value of 1 against a liquidity of 20: slippage 1/20, real value 19/20 (the
\* proportions of balance 100 at price 0.50 against liquidity 1000)
C16_Witness ==
    /\ RealValueDone /\ Value = 1 /\ call.info.liquidity = 20
    /\ Slippage = <<1, 20>> /\ result.value = <<19, 20>>

\* C17 as stated: with liquidity, a position below the available liquidity has
\* negative slippage and a real value above its value, and a position of at
\* least twice the liquidity has a negative real value
C17_Claim ==
    (RealValueDone /\ call.info.liquidity > 0) =>
        /\ (0 < Value /\ RatLess(Rat(Value), Available)) =>
              (RatLess(Slippage, Rat(0)) /\ RatLess(Rat(Value), result.value))
        /\ Value >= 2 * call.info.liquidity => RatLess(result.value, Rat(0))

\* C17, amended: with liquidity, the slippage is value / liquidity and never
\* negative; the real value is not clamped: it is below the value whenever the
\* value is positive, zero when the value equals the liquidity and negative
\* whenever the value exceeds the liquidity
C17_Unclamped ==
    (RealValueDone /\ call.info.liquidity > 0) =>
        /\ RatMul(Slippage, Rat(call.info.liquidity)) = Rat(Value)
        /\ ~RatLess(Slippage, Rat(0))
        /\ ~RatLess(Rat(Value), result.value)
        /\ Value > 0 => RatLess(result.value, Rat(Value))
        /\ Value = call.info.liquidity => result.value = Rat(0)
        /\ Value > call.info.liquidity => RatLess(result.value, Rat(0))

\* a value of 9 against a liquidity of 1: the real value is -72
C17_Witness ==
    /\ RealValueDone /\ Value = 9 /\ call.info.liquidity = 1
    /\ result.value = Rat(-72)

Reloaded == call.fn = "save_balances" /\ result.done

C19_NativeOverwrite ==
    [][(pc = "change" /\ pc' \in {"evm", "merge"}) =>
         /\ native_exists'
         /\ DOMAIN native_file' = Range(cfg.evm_chains)
         /\ \A chain \in Range(cfg.evm_chains) : native_file'[chain] = responses[chain]]_vars

\* no wallet is flagged, and the file has been written again with the balances
\* fetched
C19_Witness ==
    /\ pc = "merge" /\ cfg.evm_chains # <<>>
    /\ io.native_reads = 1 /\ io.native_writes = 1
    /\ FlaggedPairs(update_required, cfg.evm_chains) = <<>>
    /\ responses # EmptyDict /\ native_exists /\ native_file = responses

\* the entries carried forward from the previous snapshot in this cycle
Carried == CarryForward(DropFlagged(previous_balance, update_required), update_required)

\* what writes the balance of wallet w under token address a: the previous
\* snapshot, and the answers for w that report a non-zero holding of a
Writers(a, w) ==
    (IF a \in DOMAIN Carried /\ w \in DOMAIN Carried[a].balances THEN {<<"carried">>} ELSE {})
    \cup { <<"evm", i>> : i \in
             { j \in DOMAIN evm_responses :
                 /\ evm_responses[j].wallet = w
                 /\ \E k \in DOMAIN evm_responses[j].data :
                       LET token == evm_responses[j].data[k]
                           addr == IF token.native_token THEN evm_responses[j].chain
                                   ELSE token.token_address
                       IN  addr = a /\ Decimal(token.balance_formatted) # 0 } }

\* C20: after aggregation, no balance of a wallet under a token address has
\* been written by more than one of the previous snapshot and the answers fetched
C20_Claim ==
    (pc = "join" /\ "bal" \notin raised) =>
        \A a \in DOMAIN balances : \A w \in DOMAIN balances[a].balances :
            Cardinality(Writers(a, w)) <= 1

\* C21: after every pass of the reporting loop over a ledger, the real value
\* read of each entry is the slippage-adjusted value of its current balances,
\* price and liquidity, and the portfolio total of the pass is their sum
C21_Claim ==
    (call.fn = "get_and_set_price_info" /\ "pass" \in DOMAIN result) =>
        /\ \A a \in DOMAIN result.all_balances :
              real_value(result.all_balances[a]) = real_value_fresh(result.all_balances[a])
        /\ result.portfolio_usd
              = RatSum([a \in DOMAIN result.all_balances |->
                          real_value_fresh(result.all_balances[a])],
                       DOMAIN result.all_balances)

\* the main thread is inside track_balances, past the load of the ledger
InCycle(p) == p \in {"sui", "gecko", "sol", "native", "change", "evm", "merge", "join",
                     "loop", "retry"}

C23_Claim ==
    \A k \in 1..(Len(history) - 1) :
        history[k + 1].ledger = history[k].ledger =>
            \A i \in DOMAIN history[k].flagged :
                \E j \in DOMAIN history[k + 1].flagged :
                    history[k + 1].flagged[j] = history[k].flagged[i]

\* the delta of an old entry is defined: lines 81 and 93 do not divide by zero
SafeOld(old) ==
    /\ balance(old) # 0
    /\ old.price # 0 => real_value_fresh(old) # Rat(0)

\* C24: when the resolver has finished, every entry of the previous snapshot
\* whose address is in the new ledger has a non-zero balance and, when its
\* price is not zero, a non-zero real value; and so has every entry of the new
\* ledger, which is the previous snapshot of the cycle after
C24_Claim ==
    ResolverDone =>
        /\ \A a \in DOMAIN previous_balance \cap DOMAIN PricedNow :
              SafeOld(previous_balance[a])
        /\ \A a \in DOMAIN PricedNow : SafeOld(PricedNow[a])

\* the message a step has put on the queue, <<>> if it has put none
Queued ==
    IF Len(tgmsgbot'.message_queue) = Len(tgmsgbot.message_queue) + 1
    THEN <<tgmsgbot'.message_queue[Len(tgmsgbot'.message_queue)]>>
    ELSE <<>>

\* C25: an edit is put on the queue only when a send has recorded a message id
\* and the message; a call of track_balances queues a new message only in its
\* first pass; and edit_last_msg never raises MissingMessageId
C25_EditAfterSend ==
    [][/\ (Queued # <<>> /\ Queued[1].fn = "edit_last_msg") =>
             /\ tgmsgbot.msg_id # 0 /\ tgmsgbot.last_msg # <<>> /\ tgmsgbot.sends > 0
             /\ sent /\ sent'
       /\ (Queued # <<>> /\ Queued[1].fn = "send_msg") => (~sent /\ sent')
       /\ (sent /\ ~sent') => cycles' = cycles + 1
       /\ tgmsgbot'.error # "MissingMessageId"]_vars

\* in the second call of track_balances the report of a pass, queued as an
\* edit, has passed the check of msg_id and is about to be posted
C25_Witness ==
    /\ cycles = 2 /\ sent /\ tgmsgbot.thread = "post"
    /\ tgmsgbot.msg_id = 3 /\ tgmsgbot.job[1].fn = "edit_last_msg"

====
